---- MODULE Spec2Model ----
(***************************************************************************)
(* Model of kagimcplocal/server.py: the BrowserManager session (the steps *)
(* of startup, shutdown), the two-phase scrape of fetch_search_results    *)
(* (per-query extraction that creates one asyncio task per result, then   *)
(* gather), the tool entry kagi_search_fetch and the pure formatter       *)
(* format_search_results.                                                  *)
(*                                                                         *)
(* Python values are represented as follows.                              *)
(*   - An optional value (x | None) is a sequence of length 0 or 1.       *)
(*   - Text whose characters matter (content, snippet, the display        *)
(*     content) is a sequence of one-character strings; text that is      *)
(*     only copied (query, title, url) is a TLA+ string.                   *)
(*   - A dict is a sequence of [key, val] records with distinct keys, in  *)
(*     insertion order.                                                    *)
(*   - A SearchResult object lives in results_to_update; the lists of     *)
(*     query_search_results hold indices into it (object references).     *)
(*   - The formatted text is the sequence of its lines.                   *)
(***************************************************************************)
EXTENDS Integers, Sequences, FiniteSets, TLC

VARIABLES
    p,                          \* BrowserManager.p: "None" or "playwright"
    browser,                    \* BrowserManager.browser: "None" or "browser"
    context,                    \* BrowserManager.context: "None" or a context
    connected,                  \* browser.is_connected()
    probe,                      \* startup: the outcome of the port probe
    popen,                      \* startup: the outcome of subprocess.Popen
    contexts,                   \* startup: browser.contexts as read
    shutdown_log,               \* history: per call of shutdown, the
                                \* operations it performed on the connection
    results_max,                \* app.RESULTS_MAX
    content_char_limit,         \* app.CONTENT_CHAR_LIMIT
    pc,                         \* position of the lifespan / tool call
    queries,                    \* argument of kagi_search_fetch
    qi,                         \* position of `for query in queries`
    page,                       \* the extraction page: "None" or "open"
    results_elements,           \* number of nodes of the current results page
    valid_nodes,                \* history: the nodes read on this page that
                                \* have a title and a URL
    ei,                         \* position of `for result_element in ...`
    initial_results_for_query,  \* references to the results of this query
    results_count_for_query,
    query_search_results,       \* dict: query -> list of references
    fetch_tasks,                \* the asyncio tasks, in creation order
    results_to_update,          \* the SearchResult objects, same order
    extraction,                 \* history: the extraction of each query: ok,
                                \* its list, its valid_nodes
    page_requested,             \* history: context.new_page() was called
    open_pages,                 \* the pages of this call that are open
    out_of_order,               \* history: a task out_of_order before a task
                                \* that was created earlier
    fmt_search_results,         \* argument of format_search_results
    response                    \* optional: the returned text (its lines)

\* The locals of one turn of `for query in queries`.
extract_locals ==
    <<results_elements, valid_nodes, ei, initial_results_for_query,
      results_count_for_query>>

\* The locals of startup.
startup_locals == <<probe, popen, contexts>>

vars == <<p, browser, context, connected, startup_locals, shutdown_log,
          results_max,
          content_char_limit, pc, queries, qi, page, extract_locals,
          query_search_results, fetch_tasks, results_to_update, extraction,
          page_requested, open_pages, out_of_order, fmt_search_results,
          response>>

-----------------------------------------------------------------------------
(* Bounds of the model.                                                    *)

MaxQueries == 2
MaxNodes == 2
MaxTasks == 3
MaxResultsMax == 2
MaxFmtResults == 2
MaxShutdowns == 2

\* app.CONTENT_CHAR_LIMIT when the environment does not set it
DefaultContentCharLimit == 0

QueryStrings == {"q1", "q2"}
ContentCharLimits == {0, 3}

-----------------------------------------------------------------------------
(* Optional values and text.                                               *)

None == <<>>

Some(x) == <<x>>

Take(s, n) == SubSeq(s, 1, IF n < Len(s) THEN n ELSE Len(s))

StartsWith(s, prefix) ==
    /\ Len(s) >= Len(prefix)
    /\ SubSeq(s, 1, Len(prefix)) = prefix

WhitespaceChars == {" ", "\n", "\t"}

\* str.split() with no argument: the maximal runs of non-whitespace.
RECURSIVE Split(_)
Split(s) ==
    IF s = <<>> THEN <<>>
    ELSE IF Head(s) \in WhitespaceChars THEN Split(Tail(s))
    ELSE LET rest == Split(Tail(s))
         IN  IF Len(s) > 1 /\ s[2] \notin WhitespaceChars
             THEN <<(<<Head(s)>> \o Head(rest))>> \o Tail(rest)
             ELSE <<(<<Head(s)>>)>> \o rest

\* sep.join(parts)
RECURSIVE Join(_, _)
Join(sep, parts) ==
    IF parts = <<>> THEN <<>>
    ELSE IF Len(parts) = 1 THEN Head(parts)
    ELSE Head(parts) \o sep \o Join(sep, Tail(parts))

ErrorFetchingPrefix ==
    <<"E", "r", "r", "o", "r", " ", "f", "e", "t", "c", "h", "i", "n", "g",
      " ", "c", "o", "n", "t", "e", "n", "t", ":">>

ErrorGatheringPrefix ==
    <<"E", "r", "r", "o", "r", " ", "g", "a", "t", "h", "e", "r", "i", "n",
      "g", " ", "c", "o", "n", "t", "e", "n", "t", ":">>

NoContentFetched ==
    <<"N", "o", " ", "c", "o", "n", "t", "e", "n", "t", " ", "f", "e", "t",
      "c", "h", "e", "d", ".">>

TruncationMarker == <<".", ".", ".">>

\* f"Error fetching content: {content_or_exception}"
ErrorFetching(cause) == ErrorFetchingPrefix \o <<" ">> \o cause

-----------------------------------------------------------------------------
(* SearchResult and the formatter.                                         *)

SearchResult(title, url, snippet, content) ==
    [title |-> title, url |-> url, snippet |-> snippet, content |-> content]

\* One line of the formatted text.
Line(kind, num, str, chars) ==
    [kind |-> kind, num |-> num, str |-> str, chars |-> chars]

BlankLine == Line("blank", 0, "", <<>>)

RuleLine == Line("rule", 0, "-----", <<>>)

MessageLine(text) == Line("message", 0, text, <<>>)

\* "\n\n".join(blocks), each block a sequence of lines
RECURSIVE JoinBlocks(_)
JoinBlocks(blocks) ==
    IF blocks = <<>> THEN <<>>
    ELSE IF Len(blocks) = 1 THEN Head(blocks)
    ELSE Head(blocks) \o <<BlankLine>> \o JoinBlocks(Tail(blocks))

\* Faulty variant: the limit is not applied.
ContentDisplay_NoTruncation(result, limit) ==
    IF result.content # None /\ result.content[1] # <<>>
    THEN LET content == result.content[1]
         IN  IF \/ StartsWith(content, ErrorFetchingPrefix)
                \/ StartsWith(content, ErrorGatheringPrefix)
             THEN content
             ELSE Join(<<" ">>, Split(content))
    ELSE NoContentFetched

\* content_display of one result
ContentDisplay(result, limit) ==
    IF result.content # None /\ result.content[1] # <<>>
    THEN LET content == result.content[1]
         IN  IF \/ StartsWith(content, ErrorFetchingPrefix)
                \/ StartsWith(content, ErrorGatheringPrefix)
             THEN content
             ELSE LET cleaned_content == Join(<<" ">>, Split(content))
                  IN  IF limit > 0 /\ Len(cleaned_content) > limit
                      THEN Take(cleaned_content, limit) \o TruncationMarker
                      ELSE cleaned_content
    ELSE NoContentFetched

\* result_template.format(...): the snippet argument is not in the template
FormatResult(result, result_counter, limit) ==
    <<Line("title", result_counter, result.title, <<>>),
      Line("url", 0, result.url, <<>>),
      Line("content", 0, "", ContentDisplay(result, limit))>>

\* The inner loop: result_counter starts at 1 for the list it is given.
FormattedResults(results, limit) ==
    [i \in 1..Len(results) |-> FormatResult(results[i], i, limit)]

\* query_template.format(...)
FormatQuery(query, results, limit) ==
    <<RuleLine, Line("header", 0, query, <<>>), RuleLine>>
    \o (IF results = <<>>
        THEN <<MessageLine("No results found for this query.")>>
        ELSE JoinBlocks(FormattedResults(results, limit)))

\* Faulty variant: a query without results gets no section.
format_search_results_DropEmpty(search_results, limit) ==
    LET nonempty == SelectSeq(search_results, LAMBDA e : e.val # <<>>)
        formatted_queries ==
            [k \in 1..Len(nonempty) |->
                FormatQuery(nonempty[k].key, nonempty[k].val, limit)]
    IN  IF formatted_queries = <<>>
        THEN <<MessageLine("No results found for any query.")>>
        ELSE JoinBlocks(formatted_queries)

format_search_results(search_results, limit) ==
    LET formatted_queries ==
            [k \in 1..Len(search_results) |->
                FormatQuery(search_results[k].key, search_results[k].val,
                            limit)]
    IN  IF formatted_queries = <<>>
        THEN <<MessageLine("No results found for any query.")>>
        ELSE JoinBlocks(formatted_queries)

-----------------------------------------------------------------------------
(* The environment of a scrape: the query lists a caller passes, the nodes *)
(* a results page holds, and what a content fetch yields.                  *)

\* The query lists, up to the names of the strings: a list starts with "q1".
QueryLists ==
    {qs \in UNION {[1..n -> QueryStrings] : n \in 0..MaxQueries} :
        qs # <<>> => qs[1] = "q1"}

\* A node of a results page that follows k - 1 nodes with a title and a
\* URL, as the three selectors read it. SELECTOR_TITLE and SELECTOR_URL are
\* the same link: without the link title and url are both None; with it the
\* title is its text (maybe empty) and the url its href (None without one).
\* The first node with a title and a URL has a snippet, the later ones have
\* none; the snippet of a node that is dropped is never looked at.
NodesAt(k) ==
    {[title |-> Some("t" \o ToString(k)), url |-> Some("u" \o ToString(k)),
      snippet |-> IF k = 1 THEN Some(<<"s">>) ELSE None],
     [title |-> None, url |-> None, snippet |-> None],
     [title |-> Some(""), url |-> Some("u" \o ToString(k)),
      snippet |-> None],
     [title |-> Some("t" \o ToString(k)), url |-> None, snippet |-> None]}

\* bs.get_text(strip=True) of a fetched page
FetchTexts == {<<>>, <<"a", " ", " ", "b">>}

\* str(exception) of a failed fetch
FetchCauses == {<<"T", "i", "m", "e", "o", "u", "t">>}

-----------------------------------------------------------------------------
(* BrowserManager and the lifespan.                                        *)

Init ==
    /\ p = "None" /\ browser = "None" /\ context = "None"
    /\ connected = FALSE
    /\ probe = "None" /\ popen = "None" /\ contexts = <<>>
    /\ shutdown_log = <<>>
    /\ results_max \in 0..MaxResultsMax
    /\ content_char_limit = DefaultContentCharLimit
    /\ pc = "lifespan"
    /\ queries = <<>> /\ qi = 0 /\ page = "None"
    /\ results_elements = 0 /\ valid_nodes = <<>> /\ ei = 0
    /\ initial_results_for_query = <<>> /\ results_count_for_query = 0
    /\ query_search_results = <<>>
    /\ fetch_tasks = <<>> /\ results_to_update = <<>>
    /\ extraction = <<>> /\ page_requested = FALSE /\ open_pages = 0
    /\ out_of_order = FALSE
    /\ fmt_search_results = <<>>
    /\ response = None

scrape_vars ==
    <<queries, qi, page, extract_locals,
      query_search_results, fetch_tasks, results_to_update, extraction,
      page_requested, open_pages, out_of_order, response>>

config_vars == <<results_max, content_char_limit, fmt_search_results>>

session_vars ==
    <<p, browser, context, connected, startup_locals, shutdown_log>>

\* The outcomes of sock.connect_ex: 0, an error code, or socket.error.
ProbeOutcomes == {"listening", "refused", "socket_error"}

\* The outcomes of subprocess.Popen: the process, or an exception.
PopenOutcomes == {"started", "not_found", "spawn_error"}

\* browser.contexts of the browser connected to, in the browser's order.
ContextLists == {<<>>, <<"c1">>, <<"c1", "c2">>}

\* Faulty variant: the probe is ignored and a browser is always launched.
BrowserRunning_Never(result) == FALSE

\* browser_running after the probe: `if result == 0`.
BrowserRunning(result) == result = "listening"

\* startup, lines 34-46: probe the debug port.
ProbePort ==
    /\ pc = "lifespan"
    /\ \E result \in ProbeOutcomes :
        /\ probe' = result
        /\ pc' = IF BrowserRunning(result) THEN "connect" ELSE "launch"
    /\ UNCHANGED <<p, browser, context, connected, popen, contexts,
                   shutdown_log, scrape_vars, config_vars>>

\* startup, lines 48-61: `if not browser_running`, launch the browser; both
\* except branches only print.
LaunchBrowser ==
    /\ pc = "launch"
    /\ popen' \in PopenOutcomes
    /\ pc' = "connect"
    /\ UNCHANGED <<p, browser, context, connected, probe, contexts,
                   shutdown_log, scrape_vars, config_vars>>

\* The end of startup: its locals are dead.
EndOfStartup ==
    /\ probe' = "None" /\ popen' = "None" /\ contexts' = <<>>

\* startup, lines 63-66: start playwright and connect over CDP; either may
\* raise, which ends the lifespan: no tool call is served.
ConnectOverCdp ==
    /\ pc = "connect"
    /\ \/ /\ p' = "playwright" /\ browser' = "browser" /\ connected' = TRUE
          /\ contexts' \in ContextLists
          /\ pc' = "take_context"
          /\ UNCHANGED <<probe, popen>>
       \/ /\ p' = "playwright" /\ pc' = "startup_failed"
          /\ EndOfStartup
          /\ UNCHANGED <<browser, connected>>
       \/ /\ pc' = "startup_failed"
          /\ EndOfStartup
          /\ UNCHANGED <<p, browser, connected>>
    /\ UNCHANGED <<context, shutdown_log, scrape_vars, config_vars>>

\* Faulty variant: a browser without a context gets a new one.
FirstContext_OrNew(ctxs) == IF ctxs # <<>> THEN ctxs[1] ELSE "new"

\* `self.browser.contexts[0]` if there is one.
FirstContext(ctxs) == IF ctxs # <<>> THEN ctxs[1] ELSE "None"

\* startup, lines 67-71: take the first existing context, or raise.
TakeContext ==
    /\ pc = "take_context"
    /\ context' = FirstContext(contexts)
    /\ pc' = IF context' = "None" THEN "startup_failed" ELSE "idle"
    /\ EndOfStartup
    /\ UNCHANGED <<p, browser, connected, shutdown_log, scrape_vars,
                   config_vars>>

\* BrowserManager.startup, called by lifespan.
startup ==
    \/ ProbePort
    \/ LaunchBrowser
    \/ ConnectOverCdp
    \/ TakeContext

\* The browser goes away (the user closes it) while the server is idle.
BrowserDisconnects ==
    /\ pc = "idle"
    /\ connected
    /\ connected' = FALSE
    /\ UNCHANGED <<p, browser, context, startup_locals, shutdown_log, pc,
                   scrape_vars, config_vars>>

\* The operations one call of shutdown performs on the connection.
ShutdownOps(b, pw) ==
    (IF b # "None" THEN <<"browser.close">> ELSE <<>>)
    \o (IF pw # "None" THEN <<"p.stop">> ELSE <<>>)

\* BrowserManager.shutdown: called by lifespan when the server stops (it is
\* idle then), or by hand on a manager in any state; the fields are left as
\* they are.
shutdown ==
    /\ pc \in {"lifespan", "startup_failed", "idle", "stopped"}
    /\ Len(shutdown_log) < MaxShutdowns
    /\ shutdown_log' = Append(shutdown_log, ShutdownOps(browser, p))
    /\ connected' = IF browser # "None" THEN FALSE ELSE connected
    /\ pc' = "stopped"
    /\ UNCHANGED <<p, browser, context, startup_locals, scrape_vars,
                   config_vars>>

-----------------------------------------------------------------------------
(* kagi_search_fetch: the checks before the scrape.                        *)

NotConnectedMessage ==
    "Search error: browser is not connected or context is unavailable."

NoQueriesMessage == "Search error: called with no queries."

\* Faulty variant: the empty query list is not rejected.
EarlyReturn_NoEmptyCheck(ctx, is_connected, qs) ==
    IF ctx = "None" \/ ~is_connected
    THEN Some(NotConnectedMessage)
    ELSE None

\* The message kagi_search_fetch returns before any scrape, if any.
EarlyReturn(ctx, is_connected, qs) ==
    IF ctx = "None" \/ ~is_connected
    THEN Some(NotConnectedMessage)
    ELSE IF qs = <<>>
    THEN Some(NoQueriesMessage)
    ELSE None

\* After the body of `for query in queries` for query number i: the next
\* query, or the gather of the tasks, or the return.
AfterQuery(i, qs, tasks) ==
    IF i < Len(qs) THEN "new_page"
    ELSE IF tasks # <<>> THEN "gather"
    ELSE "fetched"

kagi_search_fetch ==
    /\ pc = "idle"
    /\ \E qs \in QueryLists :
        /\ queries' = qs
        /\ LET early == EarlyReturn(context, connected, qs)
           IN  IF early # None
               THEN /\ response' = Some(<<MessageLine(early[1])>>)
                    /\ pc' = "returned"
                    /\ qi' = qi
               ELSE /\ response' = None
                    /\ qi' = 1
                    /\ pc' = AfterQuery(0, qs, <<>>)
    /\ UNCHANGED <<session_vars, config_vars, page, extract_locals,
                   query_search_results,
                   fetch_tasks, results_to_update, extraction, page_requested,
                   open_pages, out_of_order>>

-----------------------------------------------------------------------------
(* fetch_search_results, first loop: the extraction of one query.          *)

\* dict[key] = val: a new key is appended, a present key keeps its place.
DictSet(dict, key, val) ==
    IF \E i \in 1..Len(dict) : dict[i].key = key
    THEN [i \in 1..Len(dict) |->
            IF dict[i].key = key THEN [key |-> key, val |-> val] ELSE dict[i]]
    ELSE Append(dict, [key |-> key, val |-> val])

\* The end of one turn of `for query in queries`: the locals of the turn
\* are dead (the next turn sets them anew), and the loop goes on.
EndOfQuery ==
    /\ page' = "None"
    /\ results_elements' = 0 /\ valid_nodes' = <<>> /\ ei' = 0
    /\ initial_results_for_query' = <<>> /\ results_count_for_query' = 0
    /\ qi' = qi + 1
    /\ pc' = AfterQuery(qi, queries, fetch_tasks)

\* Faulty variant: the page is closed on the success path only.
PagesAfterExit_NoFinally(n, ok) == IF ok THEN n - 1 ELSE n

\* get_browser_page, `finally: await page.close()`: the open pages after
\* the body of the `async with` ended, normally (ok) or with an exception.
PagesAfterExit(n, ok) == n - 1

\* `except Exception`: the query is recorded with an empty list and the loop
\* goes on; a page that was open has been closed by get_browser_page. The
\* tasks created so far for the query stay in fetch_tasks.
ExceptQuery ==
    /\ query_search_results' = DictSet(query_search_results, queries[qi], <<>>)
    /\ extraction' =
        Append(extraction,
               [ok |-> FALSE, val |-> initial_results_for_query,
                valid |-> valid_nodes])
    /\ open_pages' =
        IF page = "open" THEN PagesAfterExit(open_pages, FALSE)
        ELSE open_pages
    /\ EndOfQuery

\* get_browser_page: context.new_page()
NewPage ==
    /\ pc = "new_page"
    /\ \/ /\ page' = "open"
          /\ page_requested' = TRUE
          /\ open_pages' = open_pages + 1
          /\ pc' = "goto"
          /\ UNCHANGED <<query_search_results, extraction, qi,
                         extract_locals>>
       \/ /\ ExceptQuery
          /\ page_requested' = TRUE
    /\ UNCHANGED <<session_vars, config_vars, queries, out_of_order,
                   fetch_tasks,
                   results_to_update, response>>

\* get_browser_page: page.goto(url, timeout)
Goto ==
    /\ pc = "goto"
    /\ \/ /\ pc' = "locate"
          /\ UNCHANGED <<page, query_search_results, extraction, qi,
                         extract_locals, open_pages>>
       \/ ExceptQuery
    /\ UNCHANGED <<session_vars, config_vars, queries, out_of_order,
                   fetch_tasks,
                   results_to_update, page_requested, response>>

\* wait_for_selector, query_selector, query_selector_all: the handles of the
\* nodes of the page; what a node holds is read from the page node by node.
LocateResults ==
    /\ pc = "locate"
    /\ \/ /\ results_elements' \in 0..MaxNodes
          /\ ei' = 1
          /\ pc' = "for_result"
          /\ UNCHANGED <<page, query_search_results, extraction, qi,
                         valid_nodes, initial_results_for_query,
                         results_count_for_query, open_pages>>
       \/ ExceptQuery
    /\ UNCHANGED <<session_vars, config_vars, queries, out_of_order,
                   fetch_tasks,
                   results_to_update, page_requested, response>>

\* `if title and url`
Truthy(opt) == opt # None /\ opt[1] # ""

\* asyncio.create_task(self.fetch_content(url, page_timeout))
NewTask == [state |-> "created", ok |-> FALSE, val |-> <<>>]

\* One turn of `for result_element in results_elements`: read the node, and
\* keep it if it has a title and a URL and the query is not full. (A page
\* holds no node that would lead to more than MaxTasks tasks.)
ReadNode ==
    /\ pc = "for_result"
    /\ ei <= results_elements
    /\ \/ \E node \in NodesAt(Len(valid_nodes) + 1) :
            IF Truthy(node.title) /\ Truthy(node.url)
            THEN /\ valid_nodes' =
                        Append(valid_nodes, <<node.title[1], node.url[1]>>)
                 /\ IF results_count_for_query >= results_max
                    THEN /\ pc' = "close_page"
                         /\ UNCHANGED <<ei, initial_results_for_query,
                                        results_count_for_query,
                                        fetch_tasks, results_to_update>>
                    ELSE /\ Len(fetch_tasks) < MaxTasks
                         /\ results_to_update' =
                                Append(results_to_update,
                                       SearchResult(node.title[1],
                                                    node.url[1],
                                                    node.snippet, None))
                         /\ initial_results_for_query' =
                                Append(initial_results_for_query,
                                       Len(results_to_update) + 1)
                         /\ fetch_tasks' = Append(fetch_tasks, NewTask)
                         /\ results_count_for_query' =
                                results_count_for_query + 1
                         /\ ei' = ei + 1
                         /\ pc' = pc
                 /\ UNCHANGED <<page, results_elements, open_pages,
                                query_search_results, extraction, qi>>
            ELSE /\ ei' = ei + 1
                 /\ UNCHANGED <<pc, page, results_elements, valid_nodes,
                                initial_results_for_query,
                                results_count_for_query, fetch_tasks,
                                results_to_update, query_search_results,
                                extraction, qi, open_pages>>
       \/ /\ ExceptQuery
          /\ UNCHANGED <<fetch_tasks, results_to_update>>
    /\ UNCHANGED <<session_vars, config_vars, queries, out_of_order,
                   page_requested,
                   response>>

\* The loop over the nodes is over (exhausted or `break`): the page is
\* closed and the list of the query is stored.
ClosePage ==
    /\ \/ pc = "close_page"
       \/ pc = "for_result" /\ ei > results_elements
    /\ query_search_results' =
        DictSet(query_search_results, queries[qi], initial_results_for_query)
    /\ extraction' =
        Append(extraction,
               [ok |-> TRUE, val |-> initial_results_for_query,
                valid |-> valid_nodes])
    /\ open_pages' = PagesAfterExit(open_pages, TRUE)
    /\ EndOfQuery
    /\ UNCHANGED <<session_vars, config_vars, queries, out_of_order,
                   fetch_tasks,
                   results_to_update, page_requested, response>>

-----------------------------------------------------------------------------
(* The content-fetch tasks: they run whenever fetch_search_results awaits. *)

TaskRuns ==
    pc \in {"new_page", "goto", "locate", "for_result", "close_page",
            "gather"}

\* out_of_order once task i has completed.
CompletesOutOfOrder(i) ==
    \/ out_of_order
    \/ \E j \in 1..(i - 1) : fetch_tasks[j].state # "done"

\* fetch_content -> get_browser_page: context.new_page()
TaskNewPage(i) ==
    /\ TaskRuns
    /\ fetch_tasks[i].state = "created"
    /\ \/ /\ fetch_tasks' = [fetch_tasks EXCEPT ![i].state = "open"]
          /\ page_requested' = TRUE
          /\ open_pages' = open_pages + 1
          /\ out_of_order' = out_of_order
       \/ /\ \E cause \in FetchCauses :
                fetch_tasks' =
                    [fetch_tasks EXCEPT
                        ![i] = [state |-> "done", ok |-> FALSE,
                                val |-> cause]]
          /\ page_requested' = TRUE
          /\ open_pages' = open_pages
          /\ out_of_order' = CompletesOutOfOrder(i)
    /\ UNCHANGED <<session_vars, config_vars, pc, queries, qi, page,
                   extract_locals, query_search_results,
                   results_to_update, extraction, response>>

\* fetch_content: page.goto, page.content, get_text; the page is closed on
\* the way out; the task ends with the text or with the exception.
TaskFetch(i) ==
    /\ TaskRuns
    /\ fetch_tasks[i].state = "open"
    /\ \/ /\ \E text \in FetchTexts :
                fetch_tasks' =
                    [fetch_tasks EXCEPT
                        ![i] = [state |-> "done", ok |-> TRUE, val |-> text]]
          /\ open_pages' = PagesAfterExit(open_pages, TRUE)
       \/ /\ \E cause \in FetchCauses :
                fetch_tasks' =
                    [fetch_tasks EXCEPT
                        ![i] = [state |-> "done", ok |-> FALSE,
                                val |-> cause]]
          /\ open_pages' = PagesAfterExit(open_pages, FALSE)
    /\ out_of_order' = CompletesOutOfOrder(i)
    /\ UNCHANGED <<session_vars, config_vars, pc, queries, qi, page,
                   extract_locals, query_search_results,
                   results_to_update, extraction, page_requested, response>>

-----------------------------------------------------------------------------
(* fetch_search_results, second part: gather and the update of the results.*)

\* Faulty variant: the gather returns as soon as one task is done.
GatherReturns_FirstCompleted(tasks) ==
    \E i \in 1..Len(tasks) : tasks[i].state = "done"

\* asyncio.gather(*fetch_tasks, return_exceptions=True) returns when every
\* task is done.
GatherReturns(tasks) == \A i \in 1..Len(tasks) : tasks[i].state = "done"

\* Faulty variant: an exception is logged and the result is left alone.
UpdatedResults_SkipFailed(results, tasks) ==
    [i \in 1..Len(results) |->
        IF tasks[i].state = "done" /\ tasks[i].ok
        THEN [results[i] EXCEPT !.content = Some(tasks[i].val)]
        ELSE results[i]]

\* Faulty variant: the outcomes are paired with the results back to front.
UpdatedResults_Reversed(results, tasks) ==
    [i \in 1..Len(results) |->
        LET t == tasks[Len(tasks) + 1 - i]
        IN  IF t.state # "done" THEN results[i]
            ELSE IF ~t.ok
            THEN [results[i] EXCEPT !.content = Some(ErrorFetching(t.val))]
            ELSE [results[i] EXCEPT !.content = Some(t.val)]]

\* Faulty variant: the outcomes are paired with the results in creation
\* order only if the tasks completed in that order (otherwise back to front).
UpdatedResults_ByCompletion(results, tasks) ==
    [i \in 1..Len(results) |->
        LET t == tasks[IF out_of_order THEN Len(tasks) + 1 - i ELSE i]
        IN  IF t.state # "done" THEN results[i]
            ELSE IF ~t.ok
            THEN [results[i] EXCEPT !.content = Some(ErrorFetching(t.val))]
            ELSE [results[i] EXCEPT !.content = Some(t.val)]]

\* `for i, content_or_exception in enumerate(fetched_contents)`: result i
\* gets the text of task i, or the error sentinel of its exception.
UpdatedResults(results, tasks) ==
    [i \in 1..Len(results) |->
        IF tasks[i].state # "done" THEN results[i]
        ELSE IF ~tasks[i].ok
        THEN [results[i] EXCEPT !.content = Some(ErrorFetching(tasks[i].val))]
        ELSE [results[i] EXCEPT !.content = Some(tasks[i].val)]]

Gather ==
    /\ pc = "gather"
    /\ GatherReturns(fetch_tasks)
    /\ results_to_update' = UpdatedResults(results_to_update, fetch_tasks)
    /\ pc' = "fetched"
    /\ UNCHANGED <<session_vars, config_vars, queries, qi, page,
                   extract_locals, query_search_results,
                   fetch_tasks, extraction, page_requested, open_pages,
                   out_of_order, response>>

\* The dict with the SearchResult objects in place of their references.
Deref(dict, results) ==
    [k \in 1..Len(dict) |->
        [key |-> dict[k].key,
         val |-> [j \in 1..Len(dict[k].val) |-> results[dict[k].val[j]]]]]

\* kagi_search_fetch after fetch_search_results returned.
Respond ==
    /\ pc = "fetched"
    /\ response' =
        IF query_search_results = <<>>
        THEN Some(<<MessageLine("No results found.")>>)
        ELSE Some(format_search_results(
                    Deref(query_search_results, results_to_update),
                    content_char_limit))
    /\ pc' = "returned"
    /\ UNCHANGED <<session_vars, config_vars, queries, qi, page,
                   extract_locals, query_search_results,
                   fetch_tasks, results_to_update, extraction, page_requested,
                   open_pages, out_of_order>>

Next ==
    \/ startup
    \/ BrowserDisconnects
    \/ shutdown
    \/ kagi_search_fetch
    \/ NewPage
    \/ Goto
    \/ LocateResults
    \/ ReadNode
    \/ ClosePage
    \/ \E i \in 1..Len(fetch_tasks) : TaskNewPage(i)
    \/ \E i \in 1..Len(fetch_tasks) : TaskFetch(i)
    \/ Gather
    \/ Respond

Spec == Init /\ [][Next]_vars

-----------------------------------------------------------------------------
(* Inputs of the formatter: every dict over QueryStrings whose lists hold  *)
(* at most MaxFmtResults results in all.                                   *)

FmtContents ==
    {None,
     Some(<<>>),
     Some(<<"a", "b">>),
     Some(<<" ", "a", " ", " ", "b", "\n", "c", " ">>),
     Some(ErrorFetching(<<"x">>)),
     Some(ErrorGatheringPrefix \o <<" ", "x">>)}

FmtSnippets == {None, Some(<<"s">>)}

FmtResults ==
    {SearchResult("t", "u", snippet, content) :
        snippet \in FmtSnippets, content \in FmtContents}

ListsUpTo(n) == UNION {[1..k -> FmtResults] : k \in 0..n}

RECURSIVE ListSeqs(_, _)
ListSeqs(n, budget) ==
    IF n = 0 THEN {<<>>}
    ELSE UNION {{<<l>> \o rest : rest \in ListSeqs(n - 1, budget - Len(l))} :
                    l \in ListsUpTo(budget)}

KeySeqs ==
    {ks \in UNION {[1..n -> QueryStrings] :
                        n \in 0..Cardinality(QueryStrings)} :
        \A i, j \in 1..Len(ks) : i # j => ks[i] # ks[j]}

FmtInputs ==
    UNION {{[k \in 1..Len(ks) |-> [key |-> ks[k], val |-> ls[k]]] :
                ls \in ListSeqs(Len(ks), MaxFmtResults)} : ks \in KeySeqs}

-----------------------------------------------------------------------------
(* The formatter alone, applied to every input.                            *)

InitFormat ==
    /\ p = "None" /\ browser = "None" /\ context = "None"
    /\ connected = FALSE
    /\ probe = "None" /\ popen = "None" /\ contexts = <<>>
    /\ shutdown_log = <<>>
    /\ results_max = 0
    /\ content_char_limit \in ContentCharLimits
    /\ pc = "format"
    /\ queries = <<>> /\ qi = 0 /\ page = "None"
    /\ results_elements = 0 /\ valid_nodes = <<>> /\ ei = 0
    /\ initial_results_for_query = <<>> /\ results_count_for_query = 0
    /\ query_search_results = <<>>
    /\ fetch_tasks = <<>> /\ results_to_update = <<>>
    /\ extraction = <<>> /\ page_requested = FALSE /\ open_pages = 0
    /\ out_of_order = FALSE
    /\ fmt_search_results \in FmtInputs
    /\ response = None

FormatCall ==
    /\ pc = "format"
    /\ response' =
        Some(format_search_results(fmt_search_results, content_char_limit))
    /\ pc' = "formatted"
    /\ UNCHANGED <<p, browser, context, connected, startup_locals,
                   shutdown_log, results_max,
                   content_char_limit, queries, qi, page, extract_locals,
                   query_search_results, fetch_tasks, results_to_update,
                   extraction, page_requested, open_pages,
                   out_of_order, fmt_search_results>>

NextFormat == FormatCall

SpecFormat == InitFormat /\ [][NextFormat]_vars

-----------------------------------------------------------------------------
(* Claims about format_search_results, checked under SpecFormat.           *)

Formatted == pc = "formatted"

Out == response[1]

\* The lines of one kind, in output order.
OfKind(out, kind) == SelectSeq(out, LAMBDA l : l.kind = kind)

\* The positions of the lines of one kind, in output order.
LinesAt(out, kind) ==
    SelectSeq([i \in 1..Len(out) |-> i], LAMBDA i : out[i].kind = kind)

\* The results of all entries, in entry order.
RECURSIVE Flat(_)
Flat(search_results) ==
    IF search_results = <<>> THEN <<>>
    ELSE Head(search_results).val \o Flat(Tail(search_results))

IsSentinel(content) ==
    \/ StartsWith(content, ErrorFetchingPrefix)
    \/ StartsWith(content, ErrorGatheringPrefix)

EndsWith(s, suffix) ==
    /\ Len(s) >= Len(suffix)
    /\ SubSeq(s, Len(s) - Len(suffix) + 1, Len(s)) = suffix

\* C1: the display numbers of the results, read in output order across all
\* query sections, are 1, 2, 3, ...: the counter is not reset at the start
\* of a query section.
C1_ContinuousNumbering ==
    Formatted =>
        LET titles == OfKind(Out, "title")
        IN  \A i \in 1..Len(titles) : titles[i].num = i

\* The display content the priority of C6 chooses (before any truncation).
PriorityContent(result) ==
    IF result.content # None /\ IsSentinel(result.content[1])
    THEN result.content[1]
    ELSE IF result.content # None
    THEN Join(<<" ">>, Split(result.content[1]))
    ELSE IF result.snippet # None
    THEN result.snippet[1]
    ELSE NoContentFetched

\* C6: for every result the displayed content is, by priority, the error
\* sentinel verbatim, else the whitespace-normalized content if content is
\* present, else the snippet if present, else the no-content placeholder
\* (stated without a limit, so that truncation plays no part).
C6_DisplayPriority ==
    (Formatted /\ content_char_limit = 0) =>
        LET shown == OfKind(Out, "content")
            results == Flat(fmt_search_results)
        IN  /\ Len(shown) = Len(results)
            /\ \A i \in 1..Len(results) :
                    shown[i].chars = PriorityContent(results[i])

\* The rendered content segment without the truncation marker that the
\* formatter appended to it.
Segment(display, limit) ==
    IF Len(display) > limit /\ EndsWith(display, TruncationMarker)
    THEN SubSeq(display, 1, Len(display) - Len(TruncationMarker))
    ELSE display

IsPlainText(result) ==
    /\ result.content # None
    /\ result.content[1] # <<>>
    /\ ~IsSentinel(result.content[1])

\* C7 as claimed: with a limit > 0 the content segment of every result,
\* whatever its content, is at most the limit long without the marker; with
\* limit 0 nothing is truncated.
C7_EverySegmentWithinLimit ==
    Formatted =>
        LET shown == OfKind(Out, "content")
            results == Flat(fmt_search_results)
        IN  \A i \in 1..Len(shown) :
                IF content_char_limit > 0
                THEN Len(Segment(shown[i].chars, content_char_limit))
                        <= content_char_limit
                ELSE IsPlainText(results[i]) =>
                        shown[i].chars
                            = Join(<<" ">>, Split(results[i].content[1]))

\* C7 as amended: with a limit > 0 the content segment of every result whose
\* content is non-empty fetched text that is no error sentinel is at most the
\* limit long without the marker; an error sentinel and the no-content
\* placeholder are rendered in full whatever the limit; with limit 0 nothing
\* is truncated.
C7_FetchedTextWithinLimit ==
    Formatted =>
        LET shown == OfKind(Out, "content")
            results == Flat(fmt_search_results)
        IN  /\ Len(shown) = Len(results)
            /\ \A i \in 1..Len(shown) :
                LET result == results[i]
                    display == shown[i].chars
                IN  IF IsPlainText(result)
                    THEN IF content_char_limit > 0
                         THEN /\ Len(Segment(display, content_char_limit))
                                    <= content_char_limit
                              /\ Segment(display, content_char_limit)
                                    = Take(Join(<<" ">>,
                                                Split(result.content[1])),
                                           content_char_limit)
                         ELSE display
                                = Join(<<" ">>, Split(result.content[1]))
                    ELSE IF result.content # None /\ result.content[1] # <<>>
                    THEN display = result.content[1]
                    ELSE display = NoContentFetched

\* C7 witness: a fetched text longer than the limit was cut to the limit
\* and marked.
C7_Witness ==
    /\ Formatted
    /\ content_char_limit > 0
    /\ \E i \in 1..Len(Flat(fmt_search_results)) :
        LET result == Flat(fmt_search_results)[i]
            display == OfKind(Out, "content")[i].chars
        IN  /\ IsPlainText(result)
            /\ Len(Join(<<" ">>, Split(result.content[1])))
                    > content_char_limit
            /\ Len(display) = content_char_limit + Len(TruncationMarker)
            /\ EndsWith(display, TruncationMarker)

\* C10: one labeled section per entry of the result set, in entry order,
\* joined by the blank-line separator; an entry with an empty list holds the
\* no-results-for-this-query placeholder and nothing else; a result set
\* without entries renders the no-results-at-all message alone.
C10_OneSectionPerEntry ==
    Formatted =>
        IF fmt_search_results = <<>>
        THEN Out = <<MessageLine("No results found for any query.")>>
        ELSE LET h == LinesAt(Out, "header")
                 body(k) ==
                    SubSeq(Out, h[k] + 2,
                           IF k < Len(h) THEN h[k + 1] - 3 ELSE Len(Out))
             IN  /\ Len(h) = Len(fmt_search_results)
                 /\ h[1] = 2
                 /\ \A k \in 1..Len(h) :
                        /\ Out[h[k]].str = fmt_search_results[k].key
                        /\ Out[h[k] - 1] = RuleLine
                        /\ h[k] + 1 <= Len(Out) /\ Out[h[k] + 1] = RuleLine
                        /\ k > 1 => Out[h[k] - 2] = BlankLine
                        /\ IF fmt_search_results[k].val = <<>>
                           THEN body(k) =
                                <<MessageLine(
                                    "No results found for this query.")>>
                           ELSE /\ Len(OfKind(body(k), "title"))
                                    = Len(fmt_search_results[k].val)
                                /\ OfKind(body(k), "message")
                                    = <<>>
                                /\ OfKind(body(k), "rule") = <<>>

\* C10 witness: a result set with an empty entry followed by a non-empty
\* one was formatted into two sections.
C10_Witness ==
    /\ Formatted
    /\ Len(fmt_search_results) = 2
    /\ fmt_search_results[1].val = <<>>
    /\ fmt_search_results[2].val # <<>>
    /\ Len(LinesAt(Out, "header")) = 2

-----------------------------------------------------------------------------
(* Claims about the scrape, checked under Spec.                            *)

\* fetch_search_results has returned to kagi_search_fetch.
FetchReturned == pc = "fetched"

\* query_search_results[query]
Lookup(dict, key) ==
    LET i == CHOOSE i \in 1..Len(dict) : dict[i].key = key
    IN  dict[i].val

HasKey(dict, key) == \E i \in 1..Len(dict) : dict[i].key = key

\* The references held by the returned mapping.
Returned ==
    UNION {{query_search_results[k].val[j] :
                j \in 1..Len(query_search_results[k].val)} :
            k \in 1..Len(query_search_results)}

\* C2: when fetch_search_results returns, every fetch that failed has left
\* "Error fetching content: <cause>" in its own result and every fetch that
\* did not fail has left its text in its own result, whatever the other
\* fetches did; the call returns (it does not raise) with one task and one
\* result per scheduled fetch.
C2_FailureStaysInItsResult ==
    FetchReturned =>
        /\ Len(results_to_update) = Len(fetch_tasks)
        /\ \A i \in 1..Len(fetch_tasks) :
            /\ fetch_tasks[i].state = "done"
            /\ results_to_update[i].content =
                IF fetch_tasks[i].ok
                THEN Some(fetch_tasks[i].val)
                ELSE Some(ErrorFetchingPrefix \o <<" ">>
                            \o fetch_tasks[i].val)

\* C2 witness: of three fetches the second failed and the other two report
\* their text.
C2_Witness ==
    /\ FetchReturned
    /\ Len(fetch_tasks) = 3
    /\ ~fetch_tasks[2].ok
    /\ fetch_tasks[1].ok /\ fetch_tasks[3].ok
    /\ results_to_update[1].content = Some(<<"a", " ", " ", "b">>)
    /\ results_to_update[3].content = Some(<<"a", " ", " ", "b">>)
    /\ StartsWith(results_to_update[2].content[1], ErrorFetchingPrefix)

\* The list the extraction of query number i calls for: empty when it
\* failed, else the list it built.
OwnList(i) == IF extraction[i].ok THEN extraction[i].val ELSE <<>>

\* C3: when the extraction of a query fails, that query is returned with an
\* empty list and every other supplied query is returned with the list of
\* its own extraction.
C3_FailedQueryIsolated ==
    FetchReturned =>
        \A i \in 1..Len(queries) :
            /\ HasKey(query_search_results, queries[i])
            /\ Lookup(query_search_results, queries[i]) = OwnList(i)

\* C4: when fetch_search_results returns, no task it created is pending
\* and every SearchResult of the returned mapping has a content.
C4_ReturnsAfterAllTasks ==
    FetchReturned =>
        /\ \A i \in 1..Len(fetch_tasks) : fetch_tasks[i].state = "done"
        /\ \A r \in Returned : results_to_update[r].content # None

\* C4 witness: the call returned with two results whose fetches had both
\* been created while the first query was still being read.
C4_Witness ==
    /\ FetchReturned
    /\ Len(fetch_tasks) >= 2
    /\ Cardinality(Returned) >= 2
    /\ \A r \in Returned : results_to_update[r].content # None

\* C5 as claimed: a call with no queries returns the no-queries message in
\* every state of the session, and opens no page.
C5_EmptyQueriesAlways ==
    (pc = "returned" /\ queries = <<>>) =>
        /\ response = Some(<<MessageLine(NoQueriesMessage)>>)
        /\ ~page_requested

\* C5 as amended: a call with no queries opens no page and never enters
\* fetch_search_results; it returns the no-queries message when the session
\* has a context and is connected, and the not-connected message otherwise.
C5_EmptyQueriesWhenConnected ==
    (pc = "returned" /\ queries = <<>>) =>
        /\ ~page_requested
        /\ extraction = <<>> /\ query_search_results = <<>>
        /\ response =
            IF context # "None" /\ connected
            THEN Some(<<MessageLine(NoQueriesMessage)>>)
            ELSE Some(<<MessageLine(NotConnectedMessage)>>)

\* C5 witness: a connected session answered a call with no queries.
C5_Witness ==
    /\ pc = "returned"
    /\ queries = <<>>
    /\ context # "None" /\ connected
    /\ response = Some(<<MessageLine(NoQueriesMessage)>>)

Min(a, b) == IF a < b THEN a ELSE b

\* C8: for each query whose extraction succeeds the returned list is the
\* first min(results_max, k) of the k nodes of its page that have a title
\* and a URL, in document order; no returned result lacks a title or a URL.
C8_FirstValidNodes ==
    FetchReturned =>
        /\ \A i \in 1..Len(queries) :
            extraction[i].ok =>
                LET list == Lookup(query_search_results, queries[i])
                    valid == extraction[i].valid
                IN  /\ Len(list) = Min(results_max, Len(valid))
                    /\ \A j \in 1..Len(list) :
                        <<results_to_update[list[j]].title,
                          results_to_update[list[j]].url>> = valid[j]
        /\ \A r \in Returned :
            /\ results_to_update[r].title # ""
            /\ results_to_update[r].url # ""

\* C9: the result set has one entry per supplied query, in the order
\* supplied, repeated query strings included, each entry holding the list
\* of its own extraction; the formatted text has one section per query.
C9_OneEntryPerQuery ==
    /\ FetchReturned =>
        /\ Len(query_search_results) = Len(queries)
        /\ \A i \in 1..Len(queries) :
            /\ query_search_results[i].key = queries[i]
            /\ query_search_results[i].val = OwnList(i)
    /\ (pc = "returned" /\ extraction # <<>>) =>
        Len(LinesAt(Out, "header")) = Len(queries)

\* Pairwise distinct query strings.
DistinctQueries ==
    \A i, j \in 1..Len(queries) : i # j => queries[i] # queries[j]

\* C3, C8 and C9 for a call whose query strings are pairwise distinct.
DistinctQueriesAreIndependent ==
    DistinctQueries =>
        /\ C3_FailedQueryIsolated
        /\ C8_FirstValidNodes
        /\ C9_OneEntryPerQuery

-----------------------------------------------------------------------------
(* Claims about the session: startup and shutdown, checked under Spec.     *)

\* C15: startup is at the launch, or has launched, only when the probe found
\* nothing listening; once the launch has ended, whatever its outcome (the
\* process, no executable, a spawn error), startup is at the connection
\* attempt or past it; after a probe that found a browser it is there
\* without a launch. (The locals of startup are reset when it ends.)
C15_LaunchOnlyWhenNotRunning ==
    /\ (pc = "launch" \/ popen # "None") =>
            probe \in {"refused", "socket_error"}
    /\ popen # "None" => pc \in {"connect", "take_context"}
    /\ probe = "listening" =>
            popen = "None" /\ pc \in {"connect", "take_context"}

\* C15 witness: the launch failed and startup is at the connection attempt.
C15_Witness == pc = "connect" /\ popen \in {"not_found", "spawn_error"}

\* C16: with no existing context startup fails and the manager holds no
\* context (none is created); with one or more, the manager holds the first.
C16_FirstExistingContext ==
    /\ [][pc = "take_context" =>
            IF contexts = <<>>
            THEN pc' = "startup_failed" /\ context' = "None"
            ELSE pc' = "idle" /\ context' = contexts[1]]_vars
    /\ [](context # "None" => pc \notin {"lifespan", "launch", "connect",
                                         "take_context", "startup_failed"})

\* C16 witness: startup failed after connecting to a browser without a
\* context.
C16_Witness ==
    pc = "startup_failed" /\ browser # "None" /\ context = "None"

\* C17: every call of shutdown after the first performs no operation on the
\* connection, and so does a call on a manager that was never started.
C17_ShutdownIdempotent ==
    /\ \A k \in 2..Len(shutdown_log) : shutdown_log[k] = <<>>
    /\ (shutdown_log # <<>> /\ p = "None" /\ browser = "None")
            => shutdown_log[1] = <<>>

-----------------------------------------------------------------------------
(* Claims about the pages and the two phases, checked under Spec.          *)

\* C11: a page is open only while the operation that opened it (the
\* extraction of a query, or a content fetch) is under way, on every path;
\* so no page is open when fetch_search_results returns.
C11_PagesClosedByTheirOperation ==
    /\ open_pages =
            (IF page = "open" THEN 1 ELSE 0)
            + Cardinality({i \in 1..Len(fetch_tasks) :
                                fetch_tasks[i].state = "open"})
    /\ FetchReturned => open_pages = 0

\* C11 witness: the call returned after an extraction that failed on its
\* open page (nodes had been read), a fetch that failed and one that
\* succeeded.
C11_Witness ==
    /\ FetchReturned
    /\ \E k \in 1..Len(extraction) :
            ~extraction[k].ok /\ extraction[k].val # <<>>
    /\ \E i \in 1..Len(fetch_tasks) : ~fetch_tasks[i].ok
    /\ \E i \in 1..Len(fetch_tasks) : fetch_tasks[i].ok

\* The extraction loop of fetch_search_results is still running.
Extracting ==
    pc \in {"new_page", "goto", "locate", "for_result", "close_page"}

\* C12: no content-fetch task has started (opened a page, or ended) while
\* the extraction of some supplied query is not finished.
C12_FetchesStartAfterExtraction ==
    Extracting =>
        \A i \in 1..Len(fetch_tasks) : fetch_tasks[i].state = "created"

\* What a finished fetch task hands to gather, as text: the fetched text, or
\* the error sentinel of its exception.
Outcome(task) == IF task.ok THEN task.val ELSE ErrorFetching(task.val)

\* C13: in every step, a result keeps its title, url and snippet; a content
\* that is set is never set again; a content that gets set is the outcome of
\* the task created for this result; and every content is set when
\* fetch_search_results has returned.
C13_ContentWrittenOnceFromOwnTask ==
    [][/\ Len(results_to_update') >= Len(results_to_update)
       /\ \A i \in 1..Len(results_to_update) :
            LET old == results_to_update[i]
                new == results_to_update'[i]
            IN  /\ new.title = old.title
                /\ new.url = old.url
                /\ new.snippet = old.snippet
                /\ old.content # None => new.content = old.content
                /\ (old.content = None /\ new.content # None) =>
                        /\ fetch_tasks[i].state = "done"
                        /\ new.content = Some(Outcome(fetch_tasks[i]))
       /\ (pc' = "fetched") =>
            \A i \in 1..Len(results_to_update') :
                results_to_update'[i].content # None]_vars

\* C13 witness: the call returned with the sentinel in the first result, a
\* fetched text in the second, and the first result's snippet in place.
C13_Witness ==
    /\ FetchReturned
    /\ Len(results_to_update) >= 2
    /\ StartsWith(results_to_update[1].content[1], ErrorFetchingPrefix)
    /\ results_to_update[2].content = Some(<<"a", " ", " ", "b">>)
    /\ results_to_update[1].snippet = Some(<<"s">>)

\* The dict that the extractions of the first k queries leave, by their
\* outcomes alone: the list of an extraction that succeeded, the empty list
\* of one that failed, stored under the query in turn.
RECURSIVE DictOfExtractions(_)
DictOfExtractions(k) ==
    IF k = 0 THEN <<>>
    ELSE DictSet(DictOfExtractions(k - 1), queries[k],
                 IF extraction[k].ok THEN extraction[k].val ELSE <<>>)

\* The results as extracted, each with the outcome of its own fetch.
ResultsOfOutcomes ==
    [i \in 1..Len(results_to_update) |->
        [results_to_update[i] EXCEPT
            !.content = Some(Outcome(fetch_tasks[i]))]]

\* C14: the result set that fetch_search_results returns is the one its
\* extraction outcomes and its fetch outcomes determine, in whatever order
\* the fetches completed.
C14_ResultSetIndependentOfCompletionOrder ==
    FetchReturned =>
        Deref(query_search_results, results_to_update)
            = Deref(DictOfExtractions(Len(extraction)), ResultsOfOutcomes)

\* C14 witness: the call returned two results with different outcomes whose
\* fetches did not complete in creation order.
C14_Witness ==
    /\ FetchReturned
    /\ out_of_order
    /\ Returned = {1, 2}
    /\ results_to_update[1].content = Some(<<"a", " ", " ", "b">>)
    /\ StartsWith(results_to_update[2].content[1], ErrorFetchingPrefix)

-----------------------------------------------------------------------------
(* Claims about the whole call, checked under Spec.                        *)

\* kagi_search_fetch has returned the formatted result set.
Formatted_Returned == pc = "returned" /\ query_search_results # <<>>

\* The references of the returned result set, in output order.
ReturnedRefs == Flat(query_search_results)

\* C18: in the returned text, a result whose fetch succeeded shows the
\* fetched text (normalised), never the no-content placeholder and never
\* as an error sentinel; a result whose fetch failed shows its sentinel.
C18_ThreeContentStates ==
    Formatted_Returned =>
        LET shown == OfKind(response[1], "content")
        IN  /\ Len(shown) = Len(ReturnedRefs)
            /\ \A k \in 1..Len(ReturnedRefs) :
                LET task == fetch_tasks[ReturnedRefs[k]]
                IN  IF task.ok
                    THEN /\ shown[k].chars = Join(<<" ">>, Split(task.val))
                         /\ shown[k].chars # NoContentFetched
                    ELSE shown[k].chars = ErrorFetching(task.val)

\* A fetch was performed by task i: it opened a page and navigated (a task
\* that ended with a text has done both).
FetchPerformed(i) ==
    \/ fetch_tasks[i].state = "open"
    \/ fetch_tasks[i].state = "done" /\ fetch_tasks[i].ok

\* C19: when fetch_search_results returns, every fetch performed was for a
\* result of the returned result set.
C19_FetchesOnlyForReturnedResults ==
    FetchReturned =>
        \A i \in 1..Len(fetch_tasks) : FetchPerformed(i) => i \in Returned

====
